---- MODULE Spec2Model ----
(***************************************************************************)
(* Model of the open-addressing hash table of src/src/main.rs:             *)
(* HashTable { size, table, current_size } with linear probing, soft       *)
(* deletion through the is_alive / has_been_used flags, and a doubling     *)
(* resize that re-inserts the live entries through put.                    *)
(***************************************************************************)
EXTENDS Integers, Sequences, FiniteSets, TLC

(* ------------------------------ bounds --------------------------------- *)
MaxKey == 2
MaxVal == 1
MaxHash == 1
MaxInitSize == 5
MaxOps == 5

Keys == 0..MaxKey
Values == 0..MaxVal
Digests == 0..MaxHash
InitSizes == 1..MaxInitSize

(* Default::default() of the key and value types (integers, as in main) *)
DefaultKey == 0
DefaultValue == 0

(* Option<&V> *)
None == <<>>
Some(v) == <<v>>

(* find_slot's result when its loop never ends: every slot is live and holds
   another key *)
NoSlot == -1

(* find_slot's result when hash % self.size divides by zero: the call panics *)
DivByZero == -2

VARIABLES
  size,          \* HashTable.size
  table,         \* HashTable.table, table[i + 1] is the slot of index i
  current_size,  \* HashTable.current_size
  pc,            \* "idle" between calls, "spinning" when find_slot never returns,
                 \* "panicked" when a call panicked
  hashOf,        \* the digest DefaultHasher gives each key, fixed for the run
  lastOp,        \* the last call made by the caller and what it returned
  lastOn,        \* per key, the last put or delete of that key
  ever_put,      \* the keys put since construction
  init_size,     \* the argument of new
  distinct_puts, \* no delete so far and every put was of a key not put before
  nops           \* the number of puts and deletes made so far

vars == <<size, table, current_size, pc, hashOf, lastOp, lastOn, ever_put,
          init_size, distinct_puts, nops>>

(* ------------------------------ the table ------------------------------ *)
EmptyEntry ==
  [key |-> DefaultKey, value |-> DefaultValue,
   is_alive |-> FALSE, has_been_used |-> FALSE]

New(n) ==
  [size |-> n, table |-> [i \in 1..n |-> EmptyEntry], current_size |-> 0,
   pc |-> "idle"]

Self ==
  [size |-> size, table |-> table, current_size |-> current_size, pc |-> pc]

Hash(key) == hashOf[key]

RECURSIVE Probe(_, _, _, _)
Probe(self, key, index, steps) ==
  IF steps = self.size
  THEN NoSlot
  ELSE LET e == self.table[index + 1]
       IN IF e.has_been_used /\ e.key # key /\ e.is_alive = TRUE
          THEN Probe(self, key, (index + 1) % self.size, steps + 1)
          ELSE index

FindSlot(self, key) ==
  IF self.size = 0
  THEN DivByZero
  ELSE Probe(self, key, Hash(key) % self.size, 0)

(* get without the is_alive test of line 40 *)
Get_IgnoreAlive(self, key) ==
  LET index == FindSlot(self, key)
  IN IF index \in {NoSlot, DivByZero}
     THEN None
     ELSE IF self.table[index + 1].key = key
          THEN Some(self.table[index + 1].value)
          ELSE None

Get(self, key) ==
  LET index == FindSlot(self, key)
  IN IF index \in {NoSlot, DivByZero}
     THEN None
     ELSE IF self.table[index + 1].key = key /\ self.table[index + 1].is_alive
          THEN Some(self.table[index + 1].value)
          ELSE None

(* resize growing by one slot *)
NewSize_PlusOne(self) == self.size + 1

(* resize growing by a factor other than two *)
NewSize_Triple(self) == self.size * 3

NewSize(self) == self.size * 2

(* the load-factor test with > for >= *)
NeedsResize_Strict(self) == self.current_size > self.size \div 2

(* the load-factor test passing only once the table is over-full *)
NeedsResize_Above(self) == self.current_size > self.size

(* the load-factor test against the whole capacity *)
NeedsResize_Full(self) == self.current_size >= self.size

NeedsResize(self) == self.current_size >= self.size \div 2

Remove(s, index) == SubSeq(s, 1, index) \o SubSeq(s, index + 2, Len(s))

RECURSIVE Put(_, _, _)
RECURSIVE Resize(_)
RECURSIVE ResizeLoop(_, _, _, _)

ResizeLoop(self, old_table, index, hash_count) ==
  IF self.pc # "idle"
  THEN self
  ELSE IF index < Len(old_table)
       THEN IF old_table[index + 1].is_alive
            THEN LET moved == old_table[index + 1]
                 IN ResizeLoop(Put(self, moved.key, moved.value),
                               Remove(old_table, index), index, hash_count + 1)
            ELSE ResizeLoop(self, old_table, index + 1, hash_count)
       ELSE [self EXCEPT !.current_size = hash_count]

(* resize growing the old table in place instead of swapping in a fresh one *)
Swap_InPlace(self) ==
  LET new_size == NewSize(self)
      added == [i \in 1..(new_size - self.size) |-> EmptyEntry]
  IN [self EXCEPT !.table = self.table \o added, !.size = new_size,
                  !.current_size = 0]

(* resize up to its loop: the fresh table swapped in, the counters reset *)
Swap(self) ==
  LET new_size == NewSize(self)
      new_table == [i \in 1..new_size |-> EmptyEntry]
  IN [self EXCEPT !.table = new_table, !.size = new_size, !.current_size = 0]

Resize(self) == ResizeLoop(Swap(self), self.table, 0, 0)

(* put's write of the slot find_slot returned, and its count *)
Write(self, index, key, val) ==
  [self EXCEPT
     !.table[index + 1] =
        [key |-> key, value |-> val, is_alive |-> TRUE, has_been_used |-> TRUE],
     !.current_size = @ + 1]

Put(self, key, val) ==
  LET index == FindSlot(self, key)
  IN IF index \in {NoSlot, DivByZero}
     THEN [self EXCEPT !.pc = IF index = NoSlot THEN "spinning" ELSE "panicked"]
     ELSE LET written == Write(self, index, key, val)
          IN IF NeedsResize(written) THEN Resize(written) ELSE written

(* Every call of put that one put(key, val) on self makes: itself at depth 0
   and, at depth d + 1, the puts issued by a resize that a put of depth d
   triggered; each with the table as it is when the call starts, which is the
   table its find_slot walks. *)
RECURSIVE PutCalls(_, _, _, _)
RECURSIVE LoopCalls(_, _, _, _)

LoopCalls(self, old_table, index, depth) ==
  IF self.pc # "idle"
  THEN {}
  ELSE IF index < Len(old_table)
       THEN IF old_table[index + 1].is_alive
            THEN LET moved == old_table[index + 1]
                 IN PutCalls(self, moved.key, moved.value, depth)
                      \cup LoopCalls(Put(self, moved.key, moved.value),
                                     Remove(old_table, index), index, depth)
            ELSE LoopCalls(self, old_table, index + 1, depth)
       ELSE {}

PutCalls(self, key, val, depth) ==
  LET index == FindSlot(self, key)
      call == [self |-> self, key |-> key, val |-> val, depth |-> depth]
  IN IF index \in {NoSlot, DivByZero}
     THEN {call}
     ELSE LET written == Write(self, index, key, val)
          IN IF NeedsResize(written)
             THEN {call} \cup LoopCalls(Swap(written), written.table, 0,
                                        depth + 1)
             ELSE {call}

(* whether the put of this call ends in a resize *)
Resizes(call) ==
  LET index == FindSlot(call.self, call.key)
  IN /\ index \notin {NoSlot, DivByZero}
     /\ NeedsResize(Write(call.self, index, call.key, call.val))

(* delete that resets the slot to never-used *)
Delete_ClearsUsed(self, key) ==
  LET index == FindSlot(self, key)
  IN IF index \in {NoSlot, DivByZero}
     THEN [self EXCEPT !.pc = IF index = NoSlot THEN "spinning" ELSE "panicked"]
     ELSE IF self.table[index + 1].key = key
          THEN [self EXCEPT !.table[index + 1].is_alive = FALSE,
                            !.table[index + 1].has_been_used = FALSE]
          ELSE self

(* delete that also counts the entry out, whether or not it was live *)
Delete_Decrement(self, key) ==
  LET index == FindSlot(self, key)
  IN IF index \in {NoSlot, DivByZero}
     THEN [self EXCEPT !.pc = IF index = NoSlot THEN "spinning" ELSE "panicked"]
     ELSE IF self.table[index + 1].key = key
          THEN [self EXCEPT !.table[index + 1].is_alive = FALSE,
                            !.current_size = @ - 1]
          ELSE self

Delete(self, key) ==
  LET index == FindSlot(self, key)
  IN IF index \in {NoSlot, DivByZero}
     THEN [self EXCEPT !.pc = IF index = NoSlot THEN "spinning" ELSE "panicked"]
     ELSE IF self.table[index + 1].key = key
          THEN [self EXCEPT !.table[index + 1].is_alive = FALSE]
          ELSE self

(* ------------------------------ the caller ----------------------------- *)
NoOp == [op |-> "none", val |-> DefaultValue]

(* what a put hands back to its caller: Ok(()), or nothing when the call never
   returns *)
PutResult(after) == IF after.pc = "idle" THEN "Ok" ELSE "NoReturn"

Store(self) ==
  /\ size' = self.size
  /\ table' = self.table
  /\ current_size' = self.current_size
  /\ pc' = self.pc

Init ==
  /\ init_size \in InitSizes
  /\ hashOf \in [Keys -> Digests]
  /\ size = New(init_size).size
  /\ table = New(init_size).table
  /\ current_size = New(init_size).current_size
  /\ pc = New(init_size).pc
  /\ lastOp = [op |-> "new", key |-> DefaultKey, val |-> DefaultValue,
               ret |-> None, res |-> "none"]
  /\ lastOn = [k \in Keys |-> NoOp]
  /\ ever_put = {}
  /\ distinct_puts = TRUE
  /\ nops = 0

(* a get that marks the slot it stopped at as used *)
DoGet_Touching ==
  \E k \in Keys :
    /\ pc = "idle"
    /\ FindSlot(Self, k) \notin {NoSlot, DivByZero}
    /\ table' = [table EXCEPT ![FindSlot(Self, k) + 1].has_been_used = TRUE]
    /\ lastOp' = [op |-> "get", key |-> k, val |-> DefaultValue,
                  ret |-> Get(Self, k), res |-> "none"]
    /\ UNCHANGED <<size, current_size, pc, hashOf, lastOn, ever_put,
                   init_size, distinct_puts, nops>>

DoGet ==
  \E k \in Keys :
    /\ pc = "idle"
    /\ pc' = CASE FindSlot(Self, k) = NoSlot -> "spinning"
                [] FindSlot(Self, k) = DivByZero -> "panicked"
                [] OTHER -> pc
    /\ lastOp' = [op |-> "get", key |-> k, val |-> DefaultValue,
                  ret |-> Get(Self, k), res |-> "none"]
    /\ UNCHANGED <<size, table, current_size, hashOf, lastOn, ever_put,
                   init_size, distinct_puts, nops>>

DoPut ==
  \E k \in Keys, v \in Values :
    /\ pc = "idle"
    /\ nops < MaxOps
    /\ Store(Put(Self, k, v))
    /\ lastOp' = [op |-> "put", key |-> k, val |-> v, ret |-> None,
                  res |-> PutResult(Put(Self, k, v))]
    /\ lastOn' = [lastOn EXCEPT ![k] = [op |-> "put", val |-> v]]
    /\ ever_put' = ever_put \cup {k}
    /\ distinct_puts' = (distinct_puts /\ k \notin ever_put)
    /\ nops' = nops + 1
    /\ UNCHANGED <<hashOf, init_size>>

DoDelete ==
  \E k \in Keys :
    /\ pc = "idle"
    /\ nops < MaxOps
    /\ Store(Delete(Self, k))
    /\ lastOp' = [op |-> "delete", key |-> k, val |-> DefaultValue,
                  ret |-> None, res |-> "none"]
    /\ lastOn' = [lastOn EXCEPT ![k] = [op |-> "delete", val |-> DefaultValue]]
    /\ distinct_puts' = FALSE
    /\ nops' = nops + 1
    /\ UNCHANGED <<hashOf, ever_put, init_size>>

Next == DoGet \/ DoPut \/ DoDelete

Spec == Init /\ [][Next]_vars

(* the same caller, also constructing with new(0) *)
InitZero ==
  /\ init_size \in {0} \cup InitSizes
  /\ hashOf \in [Keys -> Digests]
  /\ size = New(init_size).size
  /\ table = New(init_size).table
  /\ current_size = New(init_size).current_size
  /\ pc = New(init_size).pc
  /\ lastOp = [op |-> "new", key |-> DefaultKey, val |-> DefaultValue,
               ret |-> None, res |-> "none"]
  /\ lastOn = [k \in Keys |-> NoOp]
  /\ ever_put = {}
  /\ distinct_puts = TRUE
  /\ nops = 0

SpecZero == InitZero /\ [][Next]_vars

(* the same caller with digests that put a key's home on the first or on the
   last slot of an 8-slot table, so that probe walks wrap around *)
WrapDigests == {0, 7}

InitWrap ==
  /\ init_size \in InitSizes
  /\ hashOf \in [Keys -> WrapDigests]
  /\ size = New(init_size).size
  /\ table = New(init_size).table
  /\ current_size = New(init_size).current_size
  /\ pc = New(init_size).pc
  /\ lastOp = [op |-> "new", key |-> DefaultKey, val |-> DefaultValue,
               ret |-> None, res |-> "none"]
  /\ lastOn = [k \in Keys |-> NoOp]
  /\ ever_put = {}
  /\ distinct_puts = TRUE
  /\ nops = 0

SpecWrap == InitWrap /\ [][Next]_vars

(* ------------------------------ observers ------------------------------ *)
LiveSlots == {i \in 1..size : table[i].is_alive}

(* the slots (as indices of table) the probe walk of the key held by slot i
   passes before it reaches slot i, from the key's home slot on *)
PathTo(i) ==
  LET home == Hash(table[i].key) % size
      dist == ((i - 1) - home) % size
  IN {((home + d) % size) + 1 : d \in 0..(dist - 1)}

(* the slot state the two flags of an entry stand for *)
SlotState(e) ==
  CASE ~e.has_been_used /\ ~e.is_alive -> "NEVER_USED"
    [] e.has_been_used /\ e.is_alive -> "LIVE"
    [] e.has_been_used /\ ~e.is_alive -> "FORMERLY_LIVE"
    [] OTHER -> "INVALID"

NeverUsed(self) == {i \in 1..self.size : ~self.table[i].has_been_used}

Obs(self) ==
  [size |-> self.size, current_size |-> self.current_size,
   gets |-> [k \in Keys |-> Get(self, k)]]

(* ------------------------------- claims -------------------------------- *)

(* C1: a get(k) made while the last put or delete of k is put(k, v) returns
   present(v), whatever was done to other keys in between. *)
C1_PutThenGet ==
  (lastOp.op = "get" /\ lastOn[lastOp.key].op = "put")
    => lastOp.ret = Some(lastOn[lastOp.key].val)

(* C2: a get(k) made while the last put or delete of k is delete(k) returns
   absent, whatever was done to other keys in between. *)
C2_DeleteThenGet ==
  (lastOp.op = "get" /\ lastOn[lastOp.key].op = "delete")
    => lastOp.ret = None

(* C3: a put(k, v) that resizes leaves get(k2) as it was for every other key
   k2 that was present before the put. *)
C3_ResizePreservesContent ==
  [][(lastOp'.op = "put" /\ size' # size)
       => \A k2 \in Keys \ {lastOp'.key} :
            Get(Self, k2) # None => Get(Self, k2)' = Get(Self, k2)]_vars

(* C4: put(k, v) made right after put(k, v) leaves capacity, occupancy and the
   result of get for every key as the first put left them. *)
C4_PutIdempotent ==
  [][(lastOp.op = "put" /\ lastOp'.op = "put" /\ lastOp'.key = lastOp.key
        /\ lastOp'.val = lastOp.val)
       => Obs(Self)' = Obs(Self)]_vars

(* C5: when a put has just returned, current_size < size / 2. *)
C5_LoadFactorBound ==
  lastOp.op = "put" => (pc = "idle" /\ current_size < size \div 2)

C5_Witness ==
  /\ lastOp.op = "put"
  /\ size > init_size
  /\ current_size + 1 = size \div 2
  /\ current_size >= 2

(* C6, as claimed: capacity never decreases, get and delete leave it alone, and
   one put leaves it alone or doubles it. *)
C6_CapacityDoubles ==
  [][/\ size' >= size
     /\ lastOp'.op \in {"get", "delete"} => size' = size
     /\ lastOp'.op = "put" => size' \in {size, 2 * size}]_vars

(* C6, amended: capacity never decreases, get and delete leave it alone, and
   one put leaves it alone or doubles it, or, when the capacity before the put
   is 1, takes it to 4. *)
C6_CapacityEvolution ==
  [][/\ size' >= size
     /\ lastOp'.op \in {"get", "delete"} => size' = size
     /\ lastOp'.op = "put"
          => \/ size' \in {size, 2 * size}
             \/ size = 1 /\ size' = 4]_vars

C6_Witness ==
  /\ init_size = 1
  /\ lastOp.op = "put"
  /\ nops = 1
  /\ size = 4

(* the smallest c * 2^j that is greater than n *)
RECURSIVE SmallestAbove(_, _)
SmallestAbove(c, n) == IF c > n THEN c ELSE SmallestAbove(2 * c, n)

(* the smallest c * 2^j whose half, rounded down, is greater than n *)
RECURSIVE SmallestHalfAbove(_, _)
SmallestHalfAbove(c, n) ==
  IF c \div 2 > n THEN c ELSE SmallestHalfAbove(2 * c, n)

(* C7, as claimed: after N >= 1 puts of distinct keys and no delete, the
   capacity is the smallest init_size * 2^j greater than 2N. *)
C7_FinalCapacity ==
  (distinct_puts /\ ever_put # {})
    => size = SmallestAbove(init_size, 2 * Cardinality(ever_put))

(* C7, amended: after N >= 1 puts of distinct keys and no delete, the capacity
   is the smallest init_size * 2^j whose half, rounded down, is greater
   than N. *)
C7_FinalCapacityFloor ==
  (distinct_puts /\ ever_put # {})
    => size = SmallestHalfAbove(init_size, Cardinality(ever_put))

C7_Witness ==
  /\ distinct_puts
  /\ init_size = 5
  /\ Cardinality(ever_put) = 2
  /\ size = 10

(* C8: between calls, current_size is the number of live slots. *)
C8_OccupancyAccounting ==
  pc = "idle" => current_size = Cardinality(LiveSlots)

(* C9: no two live slots hold equal keys. *)
C9_KeyUniqueness ==
  \A i, j \in LiveSlots : table[i].key = table[j].key => i = j

(* C10: get of a key never put since new returns absent, the default key
   included. *)
C10_MissingKeyGet ==
  /\ \A k \in Keys \ ever_put : Get(Self, k) = None
  /\ (lastOp.op = "get" /\ lastOp.key \notin ever_put) => lastOp.ret = None

C10_Witness ==
  /\ lastOp.op = "get"
  /\ lastOp.key = DefaultKey
  /\ DefaultKey \notin ever_put
  /\ lastOp.ret = None
  /\ FindSlot(Self, DefaultKey) # Hash(DefaultKey) % size
  /\ \E i \in 1..size : table[i].key = DefaultKey /\ ~table[i].has_been_used

(* C11: a delete(k) made when get(k) would return absent leaves every slot,
   the capacity and the occupancy unchanged. *)
C11_DeleteMissingNoOp ==
  [][(lastOp'.op = "delete" /\ Get(Self, lastOp'.key) = None)
       => UNCHANGED <<size, table, current_size, pc>>]_vars

C11_Witness ==
  /\ lastOp.op = "delete"
  /\ lastOn[lastOp.key].op = "delete"
  /\ lastOp.key \notin ever_put
  /\ \E i \in 1..size : table[i].has_been_used /\ ~table[i].is_alive
  /\ \E i \in LiveSlots : TRUE

(* C12: on a table constructed with capacity >= 1 every put returns Ok, and
   neither it nor a put made inside resize panics or fails to return. *)
C12_PutInfallible ==
  /\ lastOp.op = "put" => (pc = "idle" /\ lastOp.res = "Ok")
  /\ pc = "idle"
       => \A k \in Keys, v \in Values : PutResult(Put(Self, k, v)) = "Ok"

C12_Witness ==
  /\ lastOp.op = "put"
  /\ lastOp.res = "Ok"
  /\ init_size = 1
  /\ size = 16
  /\ Cardinality(LiveSlots) = 3

(* C13: new(0) ends inside the constructor: no get, put or delete is ever made
   on a table constructed with capacity 0. *)
C13_ZeroRejected ==
  init_size = 0 => lastOp.op = "new"

(* C14: a get changes no slot, nor the capacity, nor the occupancy, and a get
   of the same key made right after it returns the same result. *)
C14_GetPure ==
  [][lastOp'.op = "get"
       => /\ UNCHANGED <<size, table, current_size>>
          /\ (lastOp.op = "get" /\ lastOp.key = lastOp'.key)
               => lastOp'.ret = lastOp.ret]_vars

C14_Witness ==
  /\ lastOp.op = "get"
  /\ lastOp.ret # None
  /\ \E i \in 1..size : table[i].has_been_used /\ ~table[i].is_alive
  /\ \E k \in Keys : lastOn[k].op = "put" /\ Get(Self, k) = None

(* C15: whenever find_slot is called, by get, put or delete or by a put made
   inside resize, the table has a never-used slot and the walk ends within
   size steps. *)
C15_ProbeTerminates ==
  [][/\ lastOp'.op \in {"get", "delete"}
          => /\ NeverUsed(Self) # {}
             /\ FindSlot(Self, lastOp'.key) # NoSlot
     /\ lastOp'.op = "put"
          => \A c \in PutCalls(Self, lastOp'.key, lastOp'.val, 0) :
               /\ NeverUsed(c.self) # {}
               /\ FindSlot(c.self, c.key) # NoSlot]_vars

C15_Witness ==
  /\ lastOp.op = "put"
  /\ init_size = 2
  /\ size = 16
  /\ Cardinality(NeverUsed(Self)) = 13

(* C16, as claimed: no put issued by resize triggers another resize. *)
C16_NoNestedResize ==
  [][lastOp'.op = "put"
       => \A c \in PutCalls(Self, lastOp'.key, lastOp'.val, 0) :
            c.depth >= 1 => ~Resizes(c)]_vars

(* C16, amended: no put issued by resize triggers another resize, except in
   the first put on a table of capacity 1, whose resize 1 -> 2 re-inserts one
   entry and that put triggers one resize 2 -> 4. *)
C16_NoNestedResizeAboveOne ==
  [][lastOp'.op = "put"
       => \A c \in PutCalls(Self, lastOp'.key, lastOp'.val, 0) :
            (c.depth >= 1 /\ Resizes(c))
              => (size = 1 /\ c.depth = 1 /\ c.self.size = 2)]_vars

C16_Witness ==
  /\ lastOp.op = "put"
  /\ init_size = 2
  /\ nops = 2
  /\ size = 8
  /\ Cardinality(LiveSlots) = 2

(* C17: for every live slot, every slot from the home slot of its key up to it
   (cyclically) is ever-used. *)
C17_ProbePath ==
  \A i \in LiveSlots : \A j \in PathTo(i) \cup {i} : table[j].has_been_used

C17_Witness ==
  \E i \in LiveSlots :
    /\ Cardinality(PathTo(i)) >= 2
    /\ \E j \in PathTo(i) : ~table[j].is_alive
    /\ i < (Hash(table[i].key) % size) + 1

(* C18: right after a put that resized, no slot is formerly-live, and get of
   the key of every live slot returns that slot's value. *)
C18_ResizeCompacts ==
  [][(lastOp'.op = "put" /\ size' # size)
       => /\ \A i \in 1..size' :
               table'[i].has_been_used => table'[i].is_alive
          /\ \A i \in LiveSlots' :
               Get(Self, table[i].key)' = Some(table[i].value)']_vars

C18_Witness ==
  /\ lastOp.op = "put"
  /\ init_size = 2
  /\ size = 16
  /\ nops = 5
  /\ \E k \in Keys : lastOn[k].op = "delete"
  /\ Cardinality(LiveSlots) = 2

(* the moves of one slot that the state machine of C19 allows to a call *)
SlotMove(op, from, to) ==
  \/ from = to /\ from # "INVALID"
  \/ op = "put" /\ from \in {"NEVER_USED", "FORMERLY_LIVE"} /\ to = "LIVE"
  \/ op = "delete" /\ from = "LIVE" /\ to = "FORMERLY_LIVE"

(* C19: every slot starts never-used; while the array is not replaced a slot
   only moves NEVER_USED -> LIVE, LIVE -> LIVE and FORMERLY_LIVE -> LIVE by put
   and LIVE -> FORMERLY_LIVE by delete, so none returns to NEVER_USED; and no
   slot is live without being ever-used. *)
C19_SlotStateMachine ==
  /\ \A i \in 1..size : SlotState(table[i]) = "NEVER_USED"
  /\ [][/\ \A i \in 1..size' : SlotState(table'[i]) # "INVALID"
        /\ size' = size
             => \A i \in 1..size :
                  SlotMove(lastOp'.op, SlotState(table[i]),
                           SlotState(table'[i]))]_vars

C19_Witness ==
  /\ lastOp.op = "put"
  /\ init_size = 1
  /\ nops = 4
  /\ size = 8
  /\ current_size = 3
  /\ \E k \in Keys : lastOn[k].op = "none"
  /\ \A i \in 1..size : SlotState(table[i]) # "FORMERLY_LIVE"
  /\ Cardinality(LiveSlots) = 2

(* C20: between calls, current_size is at least the number of live slots and
   at least the number of ever-used slots. *)
C20_NeverUnderCounts ==
  pc = "idle"
    => /\ current_size >= Cardinality(LiveSlots)
       /\ current_size >= size - Cardinality(NeverUsed(Self))

C20_Witness ==
  /\ lastOp.op = "delete"
  /\ current_size = 3
  /\ size - Cardinality(NeverUsed(Self)) = 1
  /\ LiveSlots = {}

TypeOK ==
  /\ size >= 1
  /\ Len(table) = size
  /\ current_size \in 0..size
  /\ pc \in {"idle", "spinning", "panicked"}
====
